---------------------------- MODULE Spec2Model ----------------------------
(***************************************************************************)
(* Model of github.com/webmafia/lru: a fixed-capacity LRU cache kept in   *)
(* three parallel slices (keys, vals, lastUse) and a logical clock (tick). *)
(* The pure operators below are the methods of type lru, applied to a      *)
(* record c holding the fields of the receiver; the Call* actions are one  *)
(* call of an exported method each.                                        *)
(***************************************************************************)
EXTENDS Integers, Sequences, FiniteSets, TLC

(* ------------------------------ bounds -------------------------------- *)

\* number of goroutines that call one Wrapper
NumThreads == 2

\* number of Wrapper calls the goroutines make in one run
MaxCalls == 2

\* number of distinct keys the callers use (keys are 1..NumKeys)
NumKeys == 3

\* number of distinct values the callers store (values are 1..NumVals)
NumVals == 2

\* largest capacity passed to New and Resize
MaxCap == 2

\* number of distinct errors a producer can return (errors are 1..NumErrs)
NumErrs == 1

\* largest value of the tick counter: math.MaxUint64 scaled down to a small
\* width, so that the counter's arithmetic is modular as in the code
MaxUint64 == 7

\* largest capacity of the caches that are filled in insertion order and then
\* resized or removed from (these runs use one key more than fits)
MaxFill == 3

Keys == 1..NumKeys

Threads == 1..NumThreads

FillKeys == 1..(MaxFill + 1)

FillCaps == 1..MaxFill

AllKeys == Keys \cup FillKeys

Vals == 1..NumVals

Errs == 1..NumErrs

Caps == 1..MaxCap

\* the zero value of K, of V and of error (nil)
Zero == 0

Mod == MaxUint64 + 1

\* uint64 subtraction and addition
Sub(a, b) == (a - b + Mod) % Mod

Add(a, b) == (a + b) % Mod

Range(s) == {s[i] : i \in DOMAIN s}

(* ------------------------------- state -------------------------------- *)

VARIABLES
    keys,          \* c.keys[:len]
    vals,          \* c.vals[:len]
    lastUse,       \* c.lastUse[:len]
    tick,          \* c.tick
    capacity,      \* cap(c.keys)
    evicted,       \* the calls of c.evicted made by the last call, in order
    call,          \* the last call: method and arguments
    ret,           \* what the last call returned
    producerCalls, \* how often the last call invoked the setter
    configured,    \* history: the capacity last passed to New or Resize
    stored,        \* history: key -> the value last stored and still live, or Zero
    touched,       \* history (SpecTouch): the live keys, least recently touched first
    inserted,      \* history (SpecInsertNew): the keys inserted, in order
    evictedAll,    \* history (SpecInsertNew): every eviction so far
    mu,            \* t.mu: the goroutine in Lock or holding it, RLocks held
    pc,            \* goroutine -> where it stands in its Wrapper call
    frame,         \* goroutine -> the call it is in and that call's locals
    ncalls         \* number of Wrapper calls made so far

hist == <<touched, inserted, evictedAll>>

\* the Wrapper's lock and its callers
wrap == <<mu, pc, frame, ncalls>>

vars == <<keys, vals, lastUse, tick, capacity, evicted, call, ret,
          producerCalls, configured, stored, touched, inserted, evictedAll,
          mu, pc, frame, ncalls>>

\* the receiver at the start of a call (no callback fired yet)
Cur == [keys |-> keys, vals |-> vals, lastUse |-> lastUse, tick |-> tick,
        capacity |-> capacity, ev |-> <<>>]

\* the receiver after the step
CurNext == [keys |-> keys', vals |-> vals', lastUse |-> lastUse', tick |-> tick',
            capacity |-> capacity', ev |-> <<>>]

(* --------------------------- the methods ------------------------------ *)

\* New: empty slices of the given capacity, tick 0
New(cp) == [keys |-> <<>>, vals |-> <<>>, lastUse |-> <<>>, tick |-> 0,
            capacity |-> cp, ev |-> <<>>]

\* c.Len()
LenOf(c) == Len(c.keys)

\* the first slot holding key, 0 when there is none (for i := range c.keys)
indexOf(ks, key) ==
    IF \E i \in DOMAIN ks : ks[i] = key
    THEN CHOOSE i \in DOMAIN ks : ks[i] = key /\ \A j \in 1..(i-1) : ks[j] # key
    ELSE 0

\* c.find(tick): the first slot whose lastUse is tick, 0 when there is none
find(c, t) ==
    IF \E i \in DOMAIN c.lastUse : c.lastUse[i] = t
    THEN CHOOSE i \in DOMAIN c.lastUse :
            c.lastUse[i] = t /\ \A j \in 1..(i-1) : c.lastUse[j] # t
    ELSE 0

\* mutant: the window is taken one tick too high
oldestTick_offByOne(c) == Sub(c.tick + 1, LenOf(c))

oldestTick(c) == Sub(c.tick, LenOf(c))

\* c.evict(key, val), with a recording callback installed
evict(c, key, val) == [c EXCEPT !.ev = Append(@, <<key, val>>)]

repair(c) ==
    [c EXCEPT !.lastUse = [i \in DOMAIN c.lastUse |-> (i - 1) % Mod],
              !.tick = LenOf(c) % Mod]

preventTickOverflow(c) ==
    IF c.tick # MaxUint64 THEN c
    ELSE LET t == oldestTick(c) IN
         IF \E i \in DOMAIN c.lastUse : c.lastUse[i] < t
         THEN repair(c)
         ELSE [c EXCEPT !.lastUse = [i \in DOMAIN c.lastUse |-> Add(c.lastUse[i], t)],
                        !.tick = LenOf(c) % Mod]

\* returns the receiver after the call and the tick issued
nextTick(c) ==
    LET d == preventTickOverflow(c) IN
    [c |-> [d EXCEPT !.tick = Add(d.tick, 1)], idx |-> d.tick]

\* mutant: the values are truncated without moving the last one into the hole
remove_valsNotSwapped(c, idx) ==
    LET end == Len(c.keys)
        d   == [c EXCEPT
                 !.keys = SubSeq([c.keys EXCEPT ![idx] = c.keys[end]], 1, end - 1),
                 !.vals = SubSeq(c.vals, 1, end - 1),
                 !.lastUse = SubSeq([c.lastUse EXCEPT ![idx] = c.lastUse[end]],
                                    1, end - 1)]
    IN evict(d, c.keys[idx], c.vals[idx])

\* swap slot idx with the last slot, truncate, notify
remove(c, idx) ==
    LET end == Len(c.keys)
        key == c.keys[idx]
        val == c.vals[idx]
        d   == [c EXCEPT
                 !.keys = SubSeq([c.keys EXCEPT ![idx] = c.keys[end]], 1, end - 1),
                 !.vals = SubSeq([c.vals EXCEPT ![idx] = c.vals[end]], 1, end - 1),
                 !.lastUse = SubSeq([c.lastUse EXCEPT ![idx] = c.lastUse[end]],
                                    1, end - 1)]
    IN evict(d, key, val)

RECURSIVE removeOldest(_)
removeOldest(c) ==
    IF Len(c.keys) = 0 THEN c
    ELSE LET idx == find(c, oldestTick(c)) IN
         IF idx # 0 THEN remove(c, idx)
         ELSE removeOldest(repair(c))

\* cap(c.keys) after Go's append had to grow a full slice
grown(cp) == IF cp = 0 THEN 1 ELSE 2 * cp

\* mutant: a full cache is not recognised as full (> for >=)
append_noEvictionWhenFull(c, key, val) ==
    LET c1 == IF Len(c.keys) > c.capacity THEN removeOldest(c) ELSE c
        c2 == [c1 EXCEPT !.keys = Append(@, key),
                         !.vals = Append(@, val),
                         !.capacity = IF Len(c1.keys) >= @ THEN grown(@) ELSE @]
        t  == nextTick(c2)
    IN [t.c EXCEPT !.lastUse = Append(@, t.idx)]

append(c, key, val) ==
    LET c1 == IF Len(c.keys) >= c.capacity THEN removeOldest(c) ELSE c
        c2 == [c1 EXCEPT !.keys = Append(@, key),
                         !.vals = Append(@, val),
                         !.capacity = IF Len(c1.keys) >= @ THEN grown(@) ELSE @]
        t  == nextTick(c2)
    IN [t.c EXCEPT !.lastUse = Append(@, t.idx)]

Reset(c) ==
    [c EXCEPT !.keys = <<>>, !.vals = <<>>, !.lastUse = <<>>, !.tick = 0]

RECURSIVE shrink_oneTooMany(_, _)
\* mutant: the loop also runs when the occupancy just fits (<= for <)
shrink_oneTooMany(c, cp) ==
    IF cp <= LenOf(c) THEN shrink_oneTooMany(removeOldest(c), cp) ELSE c

RECURSIVE shrink(_, _)
\* for capacity < c.Len() { c.removeOldest() }
shrink(c, cp) == IF cp < LenOf(c) THEN shrink(removeOldest(c), cp) ELSE c

Resize(c, cp) ==
    IF c.capacity = cp THEN c
    ELSE LET d == shrink(c, cp) IN
         [Reset(d) EXCEPT !.keys = d.keys, !.vals = d.vals,
                          !.lastUse = d.lastUse, !.capacity = cp]

Has(c, key) == indexOf(c.keys, key) # 0

Get(c, key) ==
    LET i == indexOf(c.keys, key) IN
    IF i = 0 THEN [c |-> c, val |-> Zero, ok |-> FALSE]
    ELSE LET t == nextTick(c) IN
         [c   |-> [t.c EXCEPT !.lastUse[i] = t.idx],
          val |-> c.vals[i], ok |-> TRUE]

\* mutant: the value is appended whatever the setter's error
GetOrSet_ignoresError(c, key, pval, perr) ==
    LET g == Get(c, key) IN
    IF g.ok THEN [c |-> g.c, val |-> g.val, err |-> Zero, calls |-> 0]
    ELSE [c |-> append(c, key, pval), val |-> pval, err |-> perr, calls |-> 1]

\* the setter returns (pval, perr); perr = Zero is a nil error
GetOrSet(c, key, pval, perr) ==
    LET g == Get(c, key) IN
    IF g.ok THEN [c |-> g.c, val |-> g.val, err |-> Zero, calls |-> 0]
    ELSE [c     |-> IF perr = Zero THEN append(c, key, pval) ELSE c,
          val   |-> pval, err |-> perr, calls |-> 1]

\* mutant: the key is appended without looking for it first
Set_noPresenceCheck(c, key, val) == [c |-> append(c, key, val), ok |-> TRUE]

\* mutant: a present key gets the new value
Set_overwrites(c, key, val) ==
    IF Has(c, key)
    THEN [c |-> [c EXCEPT !.vals[indexOf(c.keys, key)] = val], ok |-> FALSE]
    ELSE [c |-> append(c, key, val), ok |-> TRUE]

Set(c, key, val) ==
    IF Has(c, key) THEN [c |-> c, ok |-> FALSE]
    ELSE [c |-> append(c, key, val), ok |-> TRUE]

\* mutant: the notification carries the new value instead of the old one
Replace_notifiesNewValue(c, key, val) ==
    LET i == indexOf(c.keys, key) IN
    IF i = 0 THEN [c |-> append(c, key, val), existed |-> FALSE]
    ELSE LET t == nextTick([c EXCEPT !.vals[i] = val])
         IN [c |-> evict([t.c EXCEPT !.lastUse[i] = t.idx], key, val),
             existed |-> TRUE]

Replace(c, key, val) ==
    LET i == indexOf(c.keys, key) IN
    IF i = 0 THEN [c |-> append(c, key, val), existed |-> FALSE]
    ELSE LET old == c.vals[i]
             t   == nextTick([c EXCEPT !.vals[i] = val])
         IN [c |-> evict([t.c EXCEPT !.lastUse[i] = t.idx], key, old),
             existed |-> TRUE]

Remove(c, key) ==
    LET i == indexOf(c.keys, key) IN
    IF i = 0 THEN [c |-> c, existed |-> FALSE]
    ELSE [c |-> remove(c, i), existed |-> TRUE]

RECURSIVE evictFrom(_, _)
\* for i := range c.keys { c.evict(c.keys[i], c.vals[i]) }, from slot i on
evictFrom(c, i) ==
    IF i > Len(c.keys) THEN c
    ELSE evictFrom(evict(c, c.keys[i], c.vals[i]), i + 1)

\* mutant: the cache is cleared without notifying
RemoveAll_silent(c) == Reset(c)

RemoveAll(c) == Reset(evictFrom(c, 1))

RECURSIVE walk(_, _, _, _)
\* the loop of IterateAsc (step 1) and IterateDesc (step -1): the keys yielded
\* when n iterations remain and the next tick looked for is t
walk(c, t, n, step) ==
    IF n = 0 THEN <<>>
    ELSE LET idx == find(c, t) IN
         IF idx = 0 THEN <<>>
         ELSE <<c.keys[idx]>> \o walk(c, Sub(t + step, 0), n - 1, step)

IterateAsc(c) == walk(c, oldestTick(c), Len(c.keys), 1)

IterateDesc(c) == walk(c, Sub(c.tick, 1), Len(c.keys), -1)

(* ----------------------- history bookkeeping --------------------------- *)

\* the keys of a sequence of (key, val) notifications
EvKeys(ev) == {ev[i][1] : i \in DOMAIN ev}

Without(s, S) == SelectSeq(s, LAMBDA x : x \notin S)

\* key -> value after key was stored with val and the keys in gone left the cache
StoredAfterPut(key, val, gone) ==
    [x \in AllKeys |-> IF x = key THEN val ELSE IF x \in gone THEN Zero ELSE stored[x]]

StoredAfterDrop(gone) ==
    [x \in AllKeys |-> IF x \in gone THEN Zero ELSE stored[x]]

\* the step was a touch of its key: an insertion, a Get hit or a Replace
IsTouch ==
    \/ call'.op = "Replace"
    \/ call'.op = "Get" /\ stored[call'.key] # Zero
    \/ call'.op = "Set" /\ stored[call'.key] = Zero
    \/ call'.op = "GetOrSet" /\ stored'[call'.key] # Zero

\* the live keys in the order of their most recent touches, after the step
TouchedNext ==
    LET live == {x \in AllKeys : stored'[x] # Zero} IN
    IF IsTouch
    THEN Append(SelectSeq(touched, LAMBDA x : x \in live /\ x # call'.key), call'.key)
    ELSE SelectSeq(touched, LAMBDA x : x \in live)

NoRet == [val |-> Zero, ok |-> FALSE, err |-> Zero]

Called(op, key, val, err, n) ==
    [op |-> op, key |-> key, val |-> val, err |-> err, n |-> n]

\* the step leaves the receiver as d and reports its notifications
Commit(d) ==
    /\ keys' = d.keys
    /\ vals' = d.vals
    /\ lastUse' = d.lastUse
    /\ tick' = d.tick
    /\ capacity' = d.capacity
    /\ evicted' = d.ev

(* ------------------------------ actions ------------------------------- *)

\* the frame of a goroutine that is in no Wrapper call
NoFrame == [op |-> "", key |-> Zero, val |-> Zero, n |-> 0, inner |-> "",
            i |-> 0, len |-> 0, tk |-> 0, wr |-> {}]

\* the zero sync.RWMutex: nobody in Lock, no RLock held
Unlocked == [w |-> 0, r |-> [t \in Threads |-> 0]]

\* no goroutine has called the cache yet
WrapIdle ==
    /\ mu = Unlocked
    /\ pc = [t \in Threads |-> "idle"]
    /\ frame = [t \in Threads |-> NoFrame]
    /\ ncalls = 0

Init ==
    /\ WrapIdle
    /\ \E cp \in Caps :
          /\ keys = New(cp).keys
          /\ vals = New(cp).vals
          /\ lastUse = New(cp).lastUse
          /\ tick = New(cp).tick
          /\ capacity = New(cp).capacity
          /\ configured = cp
          /\ call = Called("New", Zero, Zero, Zero, cp)
    /\ evicted = <<>>
    /\ ret = NoRet
    /\ producerCalls = 0
    /\ stored = [x \in AllKeys |-> Zero]
    /\ touched = <<>>
    /\ inserted = <<>>
    /\ evictedAll = <<>>

\* a fresh cache of a capacity up to MaxFill
InitFill ==
    /\ WrapIdle
    /\ \E cp \in FillCaps :
          /\ keys = New(cp).keys
          /\ vals = New(cp).vals
          /\ lastUse = New(cp).lastUse
          /\ tick = New(cp).tick
          /\ capacity = New(cp).capacity
          /\ configured = cp
          /\ call = Called("New", Zero, Zero, Zero, cp)
    /\ evicted = <<>>
    /\ ret = NoRet
    /\ producerCalls = 0
    /\ stored = [x \in AllKeys |-> Zero]
    /\ touched = <<>>
    /\ inserted = <<>>
    /\ evictedAll = <<>>

CallHas(key) ==
    /\ Commit(Cur)
    /\ call' = Called("Has", key, Zero, Zero, 0)
    /\ ret' = [NoRet EXCEPT !.ok = Has(Cur, key)]
    /\ producerCalls' = 0
    /\ UNCHANGED <<configured, stored>>

CallGet(key) ==
    LET r == Get(Cur, key) IN
    /\ Commit(r.c)
    /\ call' = Called("Get", key, Zero, Zero, 0)
    /\ ret' = [NoRet EXCEPT !.val = r.val, !.ok = r.ok]
    /\ producerCalls' = 0
    /\ UNCHANGED <<configured, stored>>

CallGetOrSet(key, pval, perr) ==
    LET r == GetOrSet(Cur, key, pval, perr) IN
    /\ Commit(r.c)
    /\ call' = Called("GetOrSet", key, pval, perr, 0)
    /\ ret' = [NoRet EXCEPT !.val = r.val, !.err = r.err, !.ok = (r.err = Zero)]
    /\ producerCalls' = r.calls
    /\ stored' = IF stored[key] = Zero /\ perr = Zero
                 THEN StoredAfterPut(key, pval, EvKeys(r.c.ev))
                 ELSE stored
    /\ UNCHANGED configured

CallSet(key, val) ==
    LET r == Set(Cur, key, val) IN
    /\ Commit(r.c)
    /\ call' = Called("Set", key, val, Zero, 0)
    /\ ret' = [NoRet EXCEPT !.ok = r.ok]
    /\ producerCalls' = 0
    /\ stored' = IF stored[key] = Zero
                 THEN StoredAfterPut(key, val, EvKeys(r.c.ev))
                 ELSE stored
    /\ UNCHANGED configured

CallReplace(key, val) ==
    LET r == Replace(Cur, key, val) IN
    /\ Commit(r.c)
    /\ call' = Called("Replace", key, val, Zero, 0)
    /\ ret' = [NoRet EXCEPT !.ok = r.existed]
    /\ producerCalls' = 0
    /\ stored' = IF stored[key] = Zero
                 THEN StoredAfterPut(key, val, EvKeys(r.c.ev))
                 ELSE StoredAfterPut(key, val, {})
    /\ UNCHANGED configured

CallRemove(key) ==
    LET r == Remove(Cur, key) IN
    /\ Commit(r.c)
    /\ call' = Called("Remove", key, Zero, Zero, 0)
    /\ ret' = [NoRet EXCEPT !.ok = r.existed]
    /\ producerCalls' = 0
    /\ stored' = StoredAfterDrop({key})
    /\ UNCHANGED configured

CallRemoveAll ==
    /\ Commit(RemoveAll(Cur))
    /\ call' = Called("RemoveAll", Zero, Zero, Zero, 0)
    /\ ret' = NoRet
    /\ producerCalls' = 0
    /\ stored' = StoredAfterDrop(AllKeys)
    /\ UNCHANGED configured

CallReset ==
    /\ Commit(Reset(Cur))
    /\ call' = Called("Reset", Zero, Zero, Zero, 0)
    /\ ret' = NoRet
    /\ producerCalls' = 0
    /\ stored' = StoredAfterDrop(AllKeys)
    /\ UNCHANGED configured

CallResize(cp) ==
    LET d == Resize(Cur, cp) IN
    /\ Commit(d)
    /\ call' = Called("Resize", Zero, Zero, Zero, cp)
    /\ ret' = NoRet
    /\ producerCalls' = 0
    /\ configured' = cp
    /\ stored' = StoredAfterDrop(EvKeys(d.ev))

\* a call that keeps no history beyond the last call
Plain(A) == A /\ UNCHANGED hist /\ UNCHANGED wrap

\* a call that also records the order of the touches
Touching(A) ==
    A /\ touched' = TouchedNext /\ UNCHANGED <<inserted, evictedAll>> /\ UNCHANGED wrap

\* one insertion of a key never inserted before, through Set or Replace,
\* recording the keys inserted and the notifications
CallInsertNew(key, val) ==
    /\ key \notin Range(inserted)
    /\ \/ CallSet(key, val)
       \/ CallReplace(key, val)
    /\ inserted' = Append(inserted, key)
    /\ evictedAll' = evictedAll \o evicted'
    /\ touched' = TouchedNext
    /\ UNCHANGED wrap

(* ----------------------- the Wrapper (threadsafe) ---------------------- *)

\* the fields of t.lru and what the last call of a method of t.lru reported
engine == <<keys, vals, lastUse, tick, capacity, evicted, call, ret,
            producerCalls, configured, stored>>

\* the methods that take t.mu.Lock()
Exclusive == {"GetOrSet", "Remove", "RemoveAll", "Replace", "Reset", "Resize", "Set"}

\* the iterators: they take t.mu.RLock() when the traversal starts
Traversals == {"Iterate", "IterateAsc", "IterateDesc"}

\* mutant: GetOrSet takes the shared lock, as Get does
lockMode_GetOrSetShared(op) == IF op \in Exclusive \ {"GetOrSet"} THEN "W" ELSE "R"

\* the side of t.mu a method takes: Lock ("W") or RLock ("R")
lockMode(op) == IF op \in Exclusive THEN "W" ELSE "R"

\* the method whose lock call the goroutine is at: the one called from a
\* yield callback when there is one, else the one the goroutine called
curOp(t) == IF frame[t].inner # "" THEN frame[t].inner ELSE frame[t].op

Goto(t, l) == pc' = [pc EXCEPT ![t] = l]

\* a goroutine calls a method of the Wrapper
Begin(t, op, key, val, n) ==
    /\ pc[t] = "idle"
    /\ ncalls < MaxCalls
    /\ ncalls' = ncalls + 1
    /\ frame' = [frame EXCEPT ![t] = [NoFrame EXCEPT !.op = op, !.key = key,
                                                       !.val = val, !.n = n]]
    /\ Goto(t, "acquire")
    /\ UNCHANGED <<mu, engine, hist>>

\* t.mu.Lock(), first half: the writer side is taken and announced, which
\* makes every later RLock wait
LockPending(t) ==
    /\ pc[t] = "acquire"
    /\ lockMode(curOp(t)) = "W"
    /\ mu.w = 0
    /\ mu' = [mu EXCEPT !.w = t]
    /\ Goto(t, "drain")
    /\ UNCHANGED <<frame, ncalls, engine, hist>>

\* t.mu.Lock(), second half: Lock returns once no RLock is held
LockDrained(t) ==
    /\ pc[t] = "drain"
    /\ \A u \in Threads : mu.r[u] = 0
    /\ Goto(t, "in")
    /\ UNCHANGED <<mu, frame, ncalls, engine, hist>>

\* t.mu.RLock()
RLock(t) ==
    /\ pc[t] = "acquire"
    /\ lockMode(curOp(t)) = "R"
    /\ mu.w = 0
    /\ mu' = [mu EXCEPT !.r[t] = @ + 1]
    /\ Goto(t, "in")
    /\ UNCHANGED <<frame, ncalls, engine, hist>>

\* the goroutine is past its lock call and about to run the body of op
Inside(t, op) == pc[t] = "in" /\ curOp(t) = op

\* the body has returned; the deferred unlock is still to run
Done(t) == Goto(t, "out") /\ UNCHANGED <<mu, frame, ncalls, hist>>

WHas(t) == Inside(t, "Has") /\ CallHas(frame[t].key) /\ Done(t)

WSet(t) == Inside(t, "Set") /\ CallSet(frame[t].key, frame[t].val) /\ Done(t)

WReplace(t) ==
    Inside(t, "Replace") /\ CallReplace(frame[t].key, frame[t].val) /\ Done(t)

WRemove(t) == Inside(t, "Remove") /\ CallRemove(frame[t].key) /\ Done(t)

WRemoveAll(t) == Inside(t, "RemoveAll") /\ CallRemoveAll /\ Done(t)

WReset(t) == Inside(t, "Reset") /\ CallReset /\ Done(t)

WResize(t) == Inside(t, "Resize") /\ CallResize(frame[t].n) /\ Done(t)

\* Get under RLock, a hit: t.lru.Get reads c.tick and c.lastUse and computes
\* what it will store. Other goroutines in Get hold the same RLock, so the
\* stores (WGetWrite) may come after theirs: the data race of two readers
WGetRead(t) ==
    /\ Inside(t, "Get")
    /\ LET r == Get(Cur, frame[t].key) IN
       /\ r.ok
       /\ frame' = [frame EXCEPT
             ![t].wr = {<<i, r.c.lastUse[i]>> : i \in
                          {j \in DOMAIN lastUse : r.c.lastUse[j] # lastUse[j]}},
             ![t].tk = r.c.tick,
             ![t].val = r.val]
    /\ Goto(t, "write")
    /\ UNCHANGED <<mu, ncalls, engine, hist>>

\* Get under RLock, a hit: the stores to c.lastUse and c.tick, and the return
WGetWrite(t) ==
    /\ pc[t] = "write"
    /\ lastUse' = [i \in DOMAIN lastUse |->
                     IF \E w \in frame[t].wr : w[1] = i
                     THEN (CHOOSE w \in frame[t].wr : w[1] = i)[2]
                     ELSE lastUse[i]]
    /\ tick' = frame[t].tk
    /\ evicted' = <<>>
    /\ call' = Called("Get", frame[t].key, Zero, Zero, 0)
    /\ ret' = [NoRet EXCEPT !.val = frame[t].val, !.ok = TRUE]
    /\ producerCalls' = 0
    /\ Goto(t, "out")
    /\ UNCHANGED <<keys, vals, capacity, configured, stored, mu, frame, ncalls, hist>>

\* Get under RLock, a miss: nothing is stored
WGetMiss(t) ==
    /\ Inside(t, "Get")
    /\ ~Has(Cur, frame[t].key)
    /\ CallGet(frame[t].key)
    /\ Done(t)

\* GetOrSet under Lock, the key is live: c.Get answers
WGetOrSetHit(t) ==
    /\ Inside(t, "GetOrSet")
    /\ Has(Cur, frame[t].key)
    /\ CallGetOrSet(frame[t].key, Zero, Zero)
    /\ Done(t)

\* GetOrSet under Lock, the key is not live: setter(key) is called
WGetOrSetMiss(t) ==
    /\ Inside(t, "GetOrSet")
    /\ ~Has(Cur, frame[t].key)
    /\ Goto(t, "producer")
    /\ UNCHANGED <<mu, frame, ncalls, engine, hist>>

\* setter(key) returns pval and perr; GetOrSet appends when perr is nil
ProducerReturns(t, pval, perr) ==
    /\ pc[t] = "producer"
    /\ CallGetOrSet(frame[t].key, pval, perr)
    /\ Done(t)

\* setter(key) panics: GetOrSet is left without a return
ProducerPanics(t) ==
    /\ pc[t] = "producer"
    /\ Goto(t, "panic")
    /\ UNCHANGED <<mu, frame, ncalls, engine, hist>>

\* setter(key) never returns
ProducerBlocks(t) ==
    /\ pc[t] = "producer"
    /\ Goto(t, "blocked")
    /\ UNCHANGED <<mu, frame, ncalls, engine, hist>>

\* t.mu.Unlock() or t.mu.RUnlock() of goroutine t
Unlocks(t) ==
    mu' = IF lockMode(curOp(t)) = "W" THEN [mu EXCEPT !.w = 0]
          ELSE [mu EXCEPT !.r[t] = @ - 1]

\* mutant: Unlock is called after the body instead of being deferred, so a
\* panic leaves GetOrSet without it
Unwind_notDeferred(t) ==
    /\ pc[t] = "panic"
    /\ Goto(t, "idle")
    /\ frame' = [frame EXCEPT ![t] = NoFrame]
    /\ UNCHANGED <<mu, ncalls, engine, hist>>

\* the panic unwinds GetOrSet: the deferred t.mu.Unlock() runs, and the
\* panic reaches the caller, who recovers from it
Unwind(t) ==
    /\ pc[t] = "panic"
    /\ Unlocks(t)
    /\ Goto(t, "idle")
    /\ frame' = [frame EXCEPT ![t] = NoFrame]
    /\ UNCHANGED <<ncalls, engine, hist>>

\* the method returns: the deferred unlock runs
Release(t) ==
    /\ pc[t] = "out"
    /\ Unlocks(t)
    /\ IF frame[t].inner # ""
       THEN Goto(t, "loop") /\ frame' = [frame EXCEPT ![t].inner = ""]
       ELSE Goto(t, "idle") /\ frame' = [frame EXCEPT ![t] = NoFrame]
    /\ UNCHANGED <<ncalls, engine, hist>>

\* mutant: the RLock is taken and released by Iterate itself, not by the
\* function it returns, so the traversal runs without it
TraverseBegin_lockOutsideClosure(t) ==
    /\ pc[t] = "in"
    /\ curOp(t) \in Traversals
    /\ mu' = [mu EXCEPT !.r[t] = 0]
    /\ frame' = [frame EXCEPT
          ![t].len = Len(keys),
          ![t].tk = IF curOp(t) = "IterateAsc" THEN oldestTick(Cur)
                    ELSE IF curOp(t) = "IterateDesc" THEN Sub(tick, 1) ELSE 0]
    /\ Goto(t, "loop")
    /\ UNCHANGED <<ncalls, engine, hist>>

\* the traversal starts under the RLock: the loop bound and the first tick
TraverseBegin(t) ==
    /\ pc[t] = "in"
    /\ curOp(t) \in Traversals
    /\ frame' = [frame EXCEPT
          ![t].len = Len(keys),
          ![t].tk = IF curOp(t) = "IterateAsc" THEN oldestTick(Cur)
                    ELSE IF curOp(t) = "IterateDesc" THEN Sub(tick, 1) ELSE 0]
    /\ Goto(t, "loop")
    /\ UNCHANGED <<mu, ncalls, engine, hist>>

\* the slot the traversal is at, 0 when find(tick) fails
item(t) ==
    IF frame[t].op = "Iterate"
    THEN IF frame[t].i + 1 \in DOMAIN keys THEN frame[t].i + 1 ELSE 0
    ELSE find(Cur, frame[t].tk)

\* the loop is at an entry and yields it
AtYield(t) == pc[t] = "loop" /\ frame[t].i < frame[t].len /\ item(t) # 0

\* the loop variables after the yield returned true
Stepped(t) ==
    [frame[t] EXCEPT !.i = @ + 1,
                     !.tk = IF frame[t].op = "IterateAsc" THEN Add(@, 1)
                            ELSE IF frame[t].op = "IterateDesc" THEN Sub(@, 1)
                            ELSE @]

\* yield(key, val) returns true
YieldContinue(t) ==
    /\ AtYield(t)
    /\ frame' = [frame EXCEPT ![t] = Stepped(t)]
    /\ UNCHANGED <<pc, mu, ncalls, engine, hist>>

\* yield(key, val) returns false: the traversal returns
YieldStop(t) ==
    /\ AtYield(t)
    /\ frame' = [frame EXCEPT ![t] = Stepped(t)]
    /\ Goto(t, "out")
    /\ UNCHANGED <<mu, ncalls, engine, hist>>

\* yield(key, val) calls method op of the same Wrapper before it returns
YieldCalls(t, op) ==
    /\ AtYield(t)
    /\ frame' = [frame EXCEPT ![t] = [Stepped(t) EXCEPT !.inner = op]]
    /\ Goto(t, "acquire")
    /\ UNCHANGED <<mu, ncalls, engine, hist>>

\* the loop is over: all entries yielded, or find(tick) failed
LoopEnd(t) ==
    /\ pc[t] = "loop"
    /\ (frame[t].i = frame[t].len \/ item(t) = 0)
    /\ Goto(t, "out")
    /\ UNCHANGED <<mu, frame, ncalls, engine, hist>>

(* --------------------------- specifications --------------------------- *)

\* every operation of the engine, in any order
Next ==
    \/ \E key \in Keys : Plain(CallHas(key))
    \/ \E key \in Keys : Plain(CallGet(key))
    \/ \E key \in Keys, pval \in Vals : Plain(CallGetOrSet(key, pval, Zero))
    \/ \E key \in Keys, perr \in Errs : Plain(CallGetOrSet(key, Zero, perr))
    \/ \E key \in Keys, val \in Vals : Plain(CallSet(key, val))
    \/ \E key \in Keys, val \in Vals : Plain(CallReplace(key, val))
    \/ \E key \in Keys : Plain(CallRemove(key))
    \/ Plain(CallRemoveAll)
    \/ Plain(CallReset)
    \/ \E cp \in Caps : Plain(CallResize(cp))

Spec == Init /\ [][Next]_vars

\* Set, Replace and GetOrSet only
NextInsert ==
    \/ \E key \in Keys, pval \in Vals : Plain(CallGetOrSet(key, pval, Zero))
    \/ \E key \in Keys, perr \in Errs : Plain(CallGetOrSet(key, Zero, perr))
    \/ \E key \in Keys, val \in Vals : Plain(CallSet(key, val))
    \/ \E key \in Keys, val \in Vals : Plain(CallReplace(key, val))

SpecInsert == Init /\ [][NextInsert]_vars

\* Get, Set and Replace only, with the order of the touches recorded
NextTouch ==
    \/ \E key \in Keys : Touching(CallGet(key))
    \/ \E key \in Keys, val \in Vals : Touching(CallSet(key, val))
    \/ \E key \in Keys, val \in Vals : Touching(CallReplace(key, val))

SpecTouch == Init /\ [][NextTouch]_vars

\* a fresh cache into which distinct new keys are inserted and nothing else
NextInsertNew == \E key \in Keys, val \in Vals : CallInsertNew(key, val)

SpecInsertNew == Init /\ [][NextInsertNew]_vars

\* the ticks of the live entries are exactly tick-n .. tick-1
WindowHolds(c) == Range(c.lastUse) = {Sub(c.tick, j) : j \in 1..Len(c.keys)}

\* a fresh cache filled with distinct new keys in order, then resized once
NextResize ==
    /\ call.op # "Resize"
    /\ \/ \E key \in FillKeys, val \in Vals : CallInsertNew(key, val)
       \/ \E cp \in FillCaps : Touching(CallResize(cp))

SpecResize == InitFill /\ [][NextResize]_vars

\* a fresh cache into which absent keys are inserted, and from which a live
\* key is removed whenever the recency window holds
NextRemove ==
    \/ \E key \in FillKeys, val \in Vals :
          stored[key] = Zero /\ Touching(CallSet(key, val))
    \/ \E key \in FillKeys :
          stored[key] # Zero /\ WindowHolds(Cur) /\ Touching(CallRemove(key))

SpecRemove == InitFill /\ [][NextRemove]_vars

RECURSIVE Filled(_, _)
\* the receiver after New(cp) and Set(1, 1), ..., Set(k, 1)
Filled(cp, k) == IF k = 0 THEN New(cp) ELSE Set(Filled(cp, k - 1), k, 1).c

\* NewThreadSafe(cp), then one goroutine has stored the keys 1..k, k <= cp,
\* before the goroutines start calling
InitWrapper ==
    /\ WrapIdle
    /\ \E cp \in Caps : \E k \in 0..cp :
          /\ keys = Filled(cp, k).keys
          /\ vals = Filled(cp, k).vals
          /\ lastUse = Filled(cp, k).lastUse
          /\ tick = Filled(cp, k).tick
          /\ capacity = Filled(cp, k).capacity
          /\ configured = cp
          /\ stored = [x \in AllKeys |-> IF x <= k THEN 1 ELSE Zero]
          /\ call = IF k = 0 THEN Called("New", Zero, Zero, Zero, cp)
                    ELSE Called("Set", k, 1, Zero, 0)
          /\ ret = IF k = 0 THEN NoRet ELSE [NoRet EXCEPT !.ok = TRUE]
    /\ evicted = <<>>
    /\ producerCalls = 0
    /\ touched = <<>>
    /\ inserted = <<>>
    /\ evictedAll = <<>>

\* goroutines calling one Wrapper: every method but Len and Cap, which lock
\* as Has does
NextWrapper ==
    \E t \in Threads :
       \/ \E key \in Keys : Begin(t, "Has", key, Zero, 0)
       \/ \E key \in Keys : Begin(t, "Get", key, Zero, 0)
       \/ \E key \in Keys : Begin(t, "GetOrSet", key, Zero, 0)
       \/ \E key \in Keys, val \in Vals : Begin(t, "Set", key, val, 0)
       \/ \E key \in Keys, val \in Vals : Begin(t, "Replace", key, val, 0)
       \/ \E key \in Keys : Begin(t, "Remove", key, Zero, 0)
       \/ Begin(t, "RemoveAll", Zero, Zero, 0)
       \/ Begin(t, "Reset", Zero, Zero, 0)
       \/ \E cp \in Caps : Begin(t, "Resize", Zero, Zero, cp)
       \/ \E op \in Traversals : Begin(t, op, Zero, Zero, 0)
       \/ LockPending(t)
       \/ LockDrained(t)
       \/ RLock(t)
       \/ WHas(t)
       \/ WGetRead(t)
       \/ WGetWrite(t)
       \/ WGetMiss(t)
       \/ WGetOrSetHit(t)
       \/ WGetOrSetMiss(t)
       \/ \E pval \in Vals : ProducerReturns(t, pval, Zero)
       \/ \E perr \in Errs : ProducerReturns(t, Zero, perr)
       \/ ProducerPanics(t)
       \/ ProducerBlocks(t)
       \/ Unwind(t)
       \/ WSet(t)
       \/ WReplace(t)
       \/ WRemove(t)
       \/ WRemoveAll(t)
       \/ WReset(t)
       \/ WResize(t)
       \/ TraverseBegin(t)
       \/ YieldContinue(t)
       \/ YieldStop(t)
       \/ \E op \in Exclusive : YieldCalls(t, op)
       \/ LoopEnd(t)
       \/ Release(t)

SpecWrapper == InitWrapper /\ [][NextWrapper]_vars

(* ------------------------------ claims -------------------------------- *)

\* the step inserted a key that was absent: Set or Replace of an absent key,
\* or a GetOrSet miss whose producer succeeded
InsertsNewKey ==
    /\ call'.op \in {"Set", "Replace", "GetOrSet"}
    /\ call'.key \notin Range(keys)
    /\ call'.err = Zero

\* the slots whose recency tick is the smallest among the live entries
MinSlots == {i \in DOMAIN lastUse : \A j \in DOMAIN lastUse : lastUse[i] <= lastUse[j]}

\* C1: the three slices have equal length, and Len() is at most the capacity
\* most recently configured (by New or Resize), in every reachable state.
C1_LenBound ==
    /\ Len(keys) = Len(vals)
    /\ Len(vals) = Len(lastUse)
    /\ Len(keys) <= configured

\* an insertion into a full cache has just happened
C1_Witness ==
    /\ call.op \in {"Set", "Replace", "GetOrSet"}
    /\ evicted # <<>>
    /\ call.key \notin EvKeys(evicted)
    /\ Len(keys) = configured
    /\ configured = MaxCap

\* C2: an insertion of a new key into a full cache fires on_evict exactly once,
\* for the entry whose recency tick was the smallest just before the insertion.
C2_EvictsSmallestTick ==
    [][(InsertsNewKey /\ Len(keys) = capacity)
        => /\ Len(evicted') = 1
           /\ \E i \in MinSlots : evicted'[1] = <<keys[i], vals[i]>>]_vars

\* C3: IterateAsc yields the live keys in the order of their most recent
\* touches, oldest first, and IterateDesc yields the reverse.
C3_IterateInTouchOrder ==
    /\ IterateAsc(Cur) = touched
    /\ IterateDesc(Cur) = [i \in 1..Len(touched) |-> touched[Len(touched) + 1 - i]]

\* C4: in a full cache of capacity at least 2, when a Get hit on k is directly
\* followed by the insertion of a new key, the entry evicted is not k.
C4_GetProtects ==
    [][(/\ call.op = "Get"
        /\ ret.ok
        /\ Len(keys) = capacity
        /\ capacity >= 2
        /\ InsertsNewKey)
        => call.key \notin EvKeys(evicted')]_vars

\* the keys of the notifications recorded over an insert-only run
EvictedKeysAll == [i \in DOMAIN evictedAll |-> evictedAll[i][1]]

\* C5: after inserting N distinct new keys into a fresh cache of capacity C
\* through Set or Replace, on_evict has fired for exactly the first max(0, N-C)
\* keys, in insertion order, Len() is min(N, C), and IterateAsc yields the last
\* min(N, C) keys in insertion order.
C5_InsertOnly ==
    LET N    == Len(inserted)
        kept == IF N < configured THEN N ELSE configured
    IN /\ EvictedKeysAll = SubSeq(inserted, 1, N - kept)
       /\ Len(keys) = kept
       /\ IterateAsc(Cur) = SubSeq(inserted, N - kept + 1, N)

\* more keys were inserted than the largest capacity holds
C5_Witness ==
    /\ configured = MaxCap
    /\ Len(inserted) > MaxCap
    /\ Len(evictedAll) >= 1
    /\ Len(keys) = MaxCap

\* C6: Has and Get find a key exactly when it was inserted and has not since
\* been evicted, removed or cleared, and a Get hit returns the value stored
\* last for that key; this is also what the last Has or Get call reported.
C6_LookupMatchesStored ==
    /\ \A k \in Keys :
          /\ Has(Cur, k) = (stored[k] # Zero)
          /\ Get(Cur, k).ok = (stored[k] # Zero)
          /\ Get(Cur, k).ok => Get(Cur, k).val = stored[k]
    /\ call.op \in {"Has", "Get"} => ret.ok = (stored[call.key] # Zero)
    /\ (call.op = "Get" /\ ret.ok) => ret.val = stored[call.key]

\* a Remove hit has left behind an entry holding another value
C6_Witness ==
    /\ call.op = "Remove"
    /\ ret.ok
    /\ Len(keys) >= 1
    /\ Len(evicted) = 1
    /\ vals[1] # evicted[1][2]

\* C7: Has, a Get of an absent key and a Set of a present key change neither
\* keys, values, recency values nor the clock and fire no on_evict; that Get
\* reports not found and that Set returns false.
C7_NoEffect ==
    [][(\/ call'.op = "Has"
        \/ call'.op = "Get" /\ call'.key \notin Range(keys)
        \/ call'.op = "Set" /\ call'.key \in Range(keys))
        => /\ UNCHANGED <<keys, vals, lastUse, tick, capacity>>
           /\ evicted' = <<>>
           /\ call'.op \in {"Get", "Set"} => ~ret'.ok]_vars

\* a Set of a present key with another value has just returned false
C7_Witness ==
    /\ call.op = "Set"
    /\ ~ret.ok
    /\ stored[call.key] # Zero
    /\ stored[call.key] # call.val
    /\ Len(keys) = MaxCap

\* C8: Replace(k, v2) of a present key holding v1 fires on_evict(k, v1) exactly
\* once, returns true, leaves the keys and every other value in place (and,
\* unless the clock was rebased, every other recency value), and leaves Get(k)
\* returning v2.
C8_ReplaceExisting ==
    [][(call'.op = "Replace" /\ call'.key \in Range(keys))
        => LET i == indexOf(keys, call'.key) IN
           /\ evicted' = << <<call'.key, vals[i]>> >>
           /\ ret'.ok
           /\ keys' = keys
           /\ vals' = [vals EXCEPT ![i] = call'.val]
           /\ tick # MaxUint64
                 => \A j \in DOMAIN lastUse : j # i => lastUse'[j] = lastUse[j]
           /\ Get(CurNext, call'.key).ok
           /\ Get(CurNext, call'.key).val = call'.val]_vars

\* a Replace has displaced a different value in a cache with another entry
C8_Witness ==
    /\ call.op = "Replace"
    /\ ret.ok
    /\ Len(evicted) = 1
    /\ evicted[1][2] # call.val
    /\ Len(keys) = MaxCap

\* C9: a GetOrSet of an absent key whose producer fails invokes the producer
\* exactly once, returns the producer's error, fires no on_evict, and leaves
\* keys, values, recency values and clock as they were.
C9_ProducerFails ==
    [][(call'.op = "GetOrSet" /\ call'.key \notin Range(keys) /\ call'.err # Zero)
        => /\ producerCalls' = 1
           /\ ret'.err = call'.err
           /\ evicted' = <<>>
           /\ UNCHANGED <<keys, vals, lastUse, tick, capacity>>]_vars

\* the producer has just failed on a full cache
C9_Witness ==
    /\ call.op = "GetOrSet"
    /\ ret.err # Zero
    /\ producerCalls = 1
    /\ Len(keys) = capacity

\* C10: RemoveAll fires on_evict exactly once for each live (key, value) pair
\* and leaves the cache empty; Reset fires nothing and leaves the cache empty
\* with the clock at zero.
C10_RemoveAllAndReset ==
    [][/\ call'.op = "RemoveAll"
          => /\ Len(evicted') = Len(keys)
             /\ \A i \in DOMAIN keys :
                   Cardinality({j \in DOMAIN evicted' :
                                   evicted'[j] = <<keys[i], vals[i]>>}) = 1
             /\ Len(keys') = 0
       /\ call'.op = "Reset"
          => /\ evicted' = <<>>
             /\ Len(keys') = 0
             /\ tick' = 0]_vars

\* RemoveAll has just notified for every entry of a full cache
C10_Witness ==
    /\ call.op = "RemoveAll"
    /\ Len(evicted) = MaxCap
    /\ Len(keys) = 0

\* the (key, value) pairs held by the slots
Pairs(ks, vs) == {<<ks[i], vs[i]>> : i \in DOMAIN ks}

\* C11: on a cache filled in insertion order, Resize(c) with 1 <= c < Len()
\* fires on_evict for exactly the Len()-c least recently inserted entries,
\* oldest first, and keeps the other c entries with their values; a Resize to
\* another capacity that fits evicts nothing; Resize to the current capacity
\* changes nothing.
C11_ResizeEvictsOldest ==
    [][call'.op = "Resize"
        => LET n == Len(keys)
               c == call'.n
           IN /\ c = capacity
                 => /\ UNCHANGED <<keys, vals, lastUse, tick, capacity>>
                    /\ evicted' = <<>>
              /\ (c # capacity /\ c < n)
                 => /\ evicted' = [i \in 1..(n - c) |->
                                     <<touched[i], stored[touched[i]]>>]
                    /\ Len(keys') = c
                    /\ Pairs(keys', vals') =
                          {<<touched[j], stored[touched[j]]>> : j \in (n - c + 1)..n}
              /\ (c # capacity /\ c >= n)
                 => /\ evicted' = <<>>
                    /\ keys' = keys
                    /\ vals' = vals]_vars

\* a Resize has just evicted two entries and kept one
C11_Witness ==
    /\ call.op = "Resize"
    /\ Len(evicted) >= 2
    /\ Len(keys) >= 1

\* C12: after a Resize to another capacity of a cache filled in insertion
\* order, IterateAsc yields exactly the surviving keys, oldest first, and the
\* clock is the one from before the Resize.
C12_IterateAfterResize ==
    [][(call'.op = "Resize" /\ call'.n # capacity)
        => /\ IterateAsc(CurNext) = touched'
           /\ tick' = tick]_vars

\* the setter of goroutine t's GetOrSet is executing (it may never return)
Executing(t) == pc[t] \in {"producer", "blocked"}

\* goroutine t is inside no critical section: not past any lock call
Outside(t) == pc[t] \in {"idle", "acquire"}

\* goroutine t is past t.mu.Lock() and before its t.mu.Unlock()
HoldsLock(t) ==
    /\ pc[t] \in {"in", "write", "producer", "blocked", "panic", "out"}
    /\ lockMode(curOp(t)) = "W"

\* C13: at most one producer of a GetOrSet executes at any moment; while it
\* executes no other goroutine is inside a critical section of the Wrapper,
\* as reader or as writer; and a producer only ever executes for a key that
\* is not live, so that of two concurrent GetOrSet misses on one key the
\* second finds the key the first stored (unless it was evicted) and does
\* not invoke its producer.
C13_OneProducerAtATime ==
    \A t \in Threads :
       Executing(t)
       => /\ \A u \in Threads \ {t} : Outside(u)
          /\ mu.w = t
          /\ frame[t].key \notin Range(keys)
          /\ stored[frame[t].key] = Zero

\* a producer executes while the other goroutine waits for the lock in a
\* GetOrSet of the same key
C13_Witness ==
    \E t \in Threads : \E u \in Threads \ {t} :
       /\ pc[t] = "producer"
       /\ pc[u] = "acquire"
       /\ frame[u].op = "GetOrSet"
       /\ frame[u].key = frame[t].key

\* C14 as stated: once the producer has panicked or blocks, the lock stays
\* with its goroutine and no other goroutine gets past its lock call.
C14_LockNeverReleased ==
    [][\A t \in Threads :
          pc[t] \in {"panic", "blocked"}
          => /\ mu'.w = t
             /\ \A u \in Threads \ {t} : pc'[u] \in {"idle", "acquire"}]_vars

\* C14 amended: a producer that blocks keeps the lock for ever: its goroutine
\* stays where it is, no other goroutine gets past its lock call and the
\* cache does not change; a producer that panics leaves the cache unchanged
\* and the lock is released by the time the panic has left GetOrSet.
C14_BlockedKeepsLockPanicReleases ==
    [][\A t \in Threads :
          /\ pc[t] = "blocked"
             => /\ pc'[t] = "blocked"
                /\ mu'.w = t
                /\ \A u \in Threads \ {t} : pc'[u] \in {"idle", "acquire"}
                /\ UNCHANGED <<keys, vals, lastUse, tick, capacity>>
          /\ (pc[t] = "panic" /\ pc'[t] # "panic")
             => /\ mu'.w = 0
                /\ pc'[t] = "idle"
                /\ UNCHANGED <<keys, vals, lastUse, tick, capacity>>]_vars

\* a producer blocks while the other goroutine has called a method and waits
C14_Witness ==
    \E t \in Threads : \E u \in Threads \ {t} :
       pc[t] = "blocked" /\ pc[u] = "acquire"

\* goroutine t is in a traversal: in the loop, or in a call made by a yield
Traversing(t) ==
    frame[t].op \in Traversals /\ (pc[t] = "loop" \/ frame[t].inner # "")

\* C15: from the start of a traversal's loop to its end the goroutine holds
\* the RLock, no other goroutine is past a Lock call and no step changes
\* the entries; a call of an exclusive method made from a yield callback
\* stays in its Lock call for ever.
C15_TraversalHoldsRLock ==
    [][\A t \in Threads :
          /\ Traversing(t)
             => /\ mu.r[t] > 0
                /\ \A u \in Threads \ {t} : ~HoldsLock(u)
                /\ UNCHANGED <<keys, vals, capacity>>
          /\ frame[t].inner \in Exclusive
             => /\ frame'[t] = frame[t]
                /\ pc'[t] \in {"acquire", "drain"}]_vars

\* between the two yields of a traversal the callback has called an
\* exclusive method, while the other goroutine waits in Lock for the readers
C15_Witness ==
    \E t \in Threads : \E u \in Threads \ {t} :
       /\ frame[t].op \in Traversals
       /\ frame[t].len = 2
       /\ frame[t].i = 1
       /\ frame[t].inner \in Exclusive
       /\ pc[u] = "drain"

\* C16: every live slot's recency value is strictly less than the clock.
C16_RecencyBelowClock == \A i \in DOMAIN lastUse : lastUse[i] < tick

\* C17: no key occupies two slots.
C17_KeysDistinct ==
    \A i \in DOMAIN keys : \A j \in DOMAIN keys : i # j => keys[i] # keys[j]

\* a GetOrSet miss has displaced an entry of a full cache
C17_Witness ==
    /\ call.op = "GetOrSet"
    /\ producerCalls = 1
    /\ ret.err = Zero
    /\ Len(evicted) = 1
    /\ Len(keys) = MaxCap
    /\ MaxCap >= 2

\* C18: without Remove, RemoveAll, Reset and Resize, the recency values of the
\* n live slots are exactly the window clock-n .. clock-1.
C18_WindowHolds == WindowHolds(Cur)

\* C19: after the Remove of a live key from a cache whose window held, every
\* insertion into the full cache evicts the entry touched least recently.
C19_EvictionOrderAfterRemove ==
    [][(call'.op = "Set" /\ evicted' # <<>>)
        => /\ Len(evicted') = 1
           /\ evicted'[1][1] = touched[1]]_vars

\* C20: when a Get hit issues a tick with the clock at its maximum and the
\* window holding, the rebased recency values keep their order and lie below
\* the new clock, and the tick issued is greater than every other one.
C20_RebaseKeepsOrder ==
    [][(/\ tick = MaxUint64
        /\ WindowHolds(Cur)
        /\ call'.op = "Get"
        /\ call'.key \in Range(keys))
        => LET i == indexOf(keys, call'.key)
               others == DOMAIN lastUse \ {i}
           IN /\ \A j \in others : lastUse'[j] < lastUse'[i]
              /\ \A j \in DOMAIN lastUse : lastUse'[j] < tick'
              /\ \A j \in others : \A k \in others :
                    lastUse[j] < lastUse[k] => lastUse'[j] < lastUse'[k]]_vars

=============================================================================
